---- MODULE Spec2Model ----
(***************************************************************************)
(* Model of the numpad driver's touch-event state machine (src/dev.rs),    *)
(* with the layout lookup (src/layout.rs), the key simulator               *)
(* (src/key_simulation.rs) and the numpad light (src/numpad_light.rs).     *)
(*                                                                         *)
(* Coordinates are touchpad units, time is in milliseconds.  Option<T> is  *)
(* modelled by the value None next to the key names.                       *)
(***************************************************************************)
EXTENDS Integers, Sequences, FiniteSets

\* ------------------------------------------------------------- constants

None == "None"

KEY_NUMLOCK == "KEY_NUMLOCK"

\* numpad_light.rs
MAX_BRIGHTNESS == 7
TURN_OFF == 0
TURN_ON == 1
BRIGHTNESS_OFFSET == 65

\* key_simulation.rs
KEY_DOWN == 1
KEY_UP == 0
SYN_REPORT == "SYN_REPORT"

\* dev.rs
MIN_DRAG_DISTANCE == 30
HOLD_DURATION == 250

\* layout.rs
margin_x == 50
margin_y == 100

\* ---------------------------------------------------------------- bounds

\* The clock stops advancing once it has reached MaxNow.
MaxNow == 502

\* Amounts by which the clock advances between two events.
ClockSteps == {250, 251}

\* Positions are the non-negative values the touchpad reports, far below
\* 2^53, so `as usize` and `as f64` keep them exact.
\* Values carried by ABS_MT_POSITION_X events: inside KEY_7 (850), in the
\* margin between KEY_7 and KEY_8 (868) and inside KEY_NUMLOCK (3100).
TouchXs == {850, 868, 3100}

\* Values carried by ABS_MT_POSITION_Y events, all in the first row band:
\* 1, 29 and 30 units apart.
TouchYs == {300, 301, 330}

\* The x and y of the points looked up in the layout: the edges of every key
\* and of every row band, and the values one unit outside them.
LayoutXs == {329, 330, 859, 860, 861, 909, 910, 1600, 1601, 1649, 1650,
             2260, 2261, 2309, 2310, 3030, 3031, 3079, 3080, 3750, 3751}

LayoutYs == {199, 200, 680, 681, 779, 780, 1260, 1261, 1359, 1360,
             1840, 1841, 1939, 1940, 2420, 2421}

\* ---------------------------------------------------------------- layout

RowItem(left_x, right_x, item) ==
    [left_x |-> left_x, right_x |-> right_x, item |-> item]

Row(items, min_y, max_y) ==
    [items |-> items, min_y |-> min_y, max_y |-> max_y]

\* The next key placed against the previous one, without the margin.
insert_next_key_no_margin(vec, right_x, key) ==
    Append(vec, RowItem(vec[Len(vec)].right_x, right_x, key))

insert_next_key(vec, right_x, key) ==
    Append(vec, RowItem(vec[Len(vec)].right_x + margin_x, right_x, key))

insert_next_row(vec, items) ==
    LET last == vec[Len(vec)]
    IN  Append(vec, Row(items,
                        last.max_y + margin_y,
                        last.max_y + margin_y + last.max_y - last.min_y))

default_numpad_layout ==
    LET items1 == insert_next_key(insert_next_key(insert_next_key(insert_next_key(
                      <<RowItem(330, 860, "KEY_7")>>,
                      1600, "KEY_8"), 2260, "KEY_9"), 3030, "KEY_SLASH"),
                      3750, KEY_NUMLOCK)
        items2 == insert_next_key(insert_next_key(insert_next_key(insert_next_key(
                      <<RowItem(330, 860, "KEY_4")>>,
                      1600, "KEY_5"), 2260, "KEY_6"), 3030, "KEY_KPASTERISK"),
                      3750, "KEY_BACKSPACE")
        items3 == insert_next_key(insert_next_key(insert_next_key(insert_next_key(
                      <<RowItem(330, 860, "KEY_1")>>,
                      1600, "KEY_2"), 2260, "KEY_3"), 3030, "KEY_MINUS"),
                      3750, "KEY_ENTER")
        items4 == insert_next_key(insert_next_key(insert_next_key(
                      <<RowItem(860, 1600, "KEY_0")>>,
                      2260, "KEY_DOT"), 3030, "KEY_KPPLUS"), 3750, "KEY_ENTER")
        rows1 == <<Row(items1, 200, 680)>>
    IN  insert_next_row(insert_next_row(insert_next_row(rows1, items2), items3),
                        items4)

RECURSIVE find_item(_, _, _)
find_item(items, i, x) ==
    IF i > Len(items) THEN None
    ELSE IF items[i].left_x <= x /\ x <= items[i].right_x THEN items[i].item
    ELSE find_item(items, i + 1, x)

RECURSIVE find_row(_, _, _, _)
find_row(rows, r, x, y) ==
    IF r > Len(rows) THEN None
    ELSE IF rows[r].min_y <= y /\ y <= rows[r].max_y
              /\ find_item(rows[r].items, 1, x) # None
         THEN find_item(rows[r].items, 1, x)
    ELSE find_row(rows, r + 1, x, y)

get_item(x, y) == find_row(default_numpad_layout, 1, x, y)

\* --------------------------------------------------------- key simulator

syn == <<[code |-> SYN_REPORT, value |-> 0]>>

RECURSIVE key_events(_, _)
key_events(keys, event_value) ==
    IF keys = <<>> THEN <<>>
    ELSE <<[code |-> Head(keys), value |-> event_value]>>
         \o key_events(Tail(keys), event_value)

send_key_event(keys, event_value) == key_events(keys, event_value) \o syn

keys_down(keys) == send_key_event(keys, KEY_DOWN)

keys_up(keys) == send_key_event(keys, KEY_UP)

keys_press(keys) == keys_down(keys) \o keys_up(keys)

\* The keys down on the virtual keyboard after it has received `events`: a
\* key event with KEY_DOWN puts its key down, one with KEY_UP releases it.
RECURSIVE pressed_after(_, _)
pressed_after(keys, events) ==
    IF events = <<>> THEN keys
    ELSE IF Head(events).code = SYN_REPORT
    THEN pressed_after(keys, Tail(events))
    ELSE IF Head(events).value = KEY_DOWN
    THEN pressed_after(keys \cup {Head(events).code}, Tail(events))
    ELSE pressed_after(keys \ {Head(events).code}, Tail(events))

\* ----------------------------------------------------------- numpad light

\* The payload bytes of the frames written to the bus; ok is FALSE for Err.
turn_on == [ok |-> TRUE, bytes |-> <<TURN_ON>>]

turn_off == [ok |-> TRUE, bytes |-> <<TURN_OFF>>]

set_brightness(brightness_num) ==
    IF brightness_num > MAX_BRIGHTNESS
    THEN [ok |-> FALSE, bytes |-> <<>>]
    ELSE [ok |-> TRUE, bytes |-> <<brightness_num + BRIGHTNESS_OFFSET>>]

no_write == [ok |-> TRUE, bytes |-> <<>>]

\* What the light hardware does with one payload byte.
light_after_byte(l, num) ==
    IF num = TURN_OFF THEN [l EXCEPT !.on = FALSE]
    ELSE IF num = TURN_ON THEN [l EXCEPT !.on = TRUE]
    ELSE [l EXCEPT !.level = num - BRIGHTNESS_OFFSET]

RECURSIVE light_after(_, _)
light_after(l, bytes) ==
    IF bytes = <<>> THEN l
    ELSE light_after(light_after_byte(l, Head(bytes)), Tail(bytes))

\* ------------------------------------------------------------------ state

VARIABLES
    pos_x,        \* NumpadState.pos_x
    pos_y,        \* NumpadState.pos_y
    last_touch,   \* NumpadState.last_touch: pos_x, pos_y, time, key
    is_active,    \* NumpadState.is_active
    is_dragging,  \* NumpadState.is_dragging
    is_lifted,    \* NumpadState.is_lifted
    holding_key,  \* NumberPad.holding_key
    brightness,   \* NumberPad.brightness (u8)
    grabbed,      \* whether NumberPad.touchpad is grabbed
    light,        \* the light behind NumberPad.light_controller: on, level
    now,          \* Instant::now()
    event,        \* the event handled last
    emitted,      \* the events written to KeySimulator.udev while handling it
    written,      \* the payload bytes written to the light while handling it
    pressed,      \* the keys that are down on KeySimulator.udev
    aborted       \* an unwrap() has panicked

vars == <<pos_x, pos_y, last_touch, is_active, is_dragging, is_lifted,
          holding_key, brightness, grabbed, light, now, event, emitted,
          written, pressed, aborted>>

touch_state == <<pos_x, pos_y, last_touch, is_active, is_dragging, is_lifted,
                 holding_key, brightness, grabbed, light, aborted>>

Init ==
    /\ pos_x = 0
    /\ pos_y = 0
    /\ last_touch = [pos_x |-> 0, pos_y |-> 0, time |-> 0, key |-> None]
    /\ is_active = FALSE
    /\ is_dragging = FALSE
    /\ is_lifted = TRUE
    /\ holding_key = None
    /\ brightness = MAX_BRIGHTNESS
    /\ grabbed = FALSE
    /\ light = light_after([on |-> FALSE, level |-> 0],
                           turn_off.bytes \o set_brightness(MAX_BRIGHTNESS).bytes)
    /\ now = 0
    /\ event = "new"
    /\ emitted = <<>>
    /\ written = <<>>
    /\ pressed = {}
    /\ aborted = FALSE

\* ---------------------------------------------------------------- helpers

\* The drag test with > in place of >=.
drag_distance_reached_strict(x1, y1, x2, y2) ==
    (x1 - x2) * (x1 - x2) + (y1 - y2) * (y1 - y2)
        > MIN_DRAG_DISTANCE * MIN_DRAG_DISTANCE

\* dist(..) >= MIN_DRAG_DISTANCE: the square root of an integer below 2^53 is
\* at least 30.0 exactly when the integer is at least 900.
drag_distance_reached(x1, y1, x2, y2) ==
    (x1 - x2) * (x1 - x2) + (y1 - y2) * (y1 - y2)
        >= MIN_DRAG_DISTANCE * MIN_DRAG_DISTANCE

\* The hold test with >= in place of >.
hold_elapsed_inclusive(t_now, t_touch) == t_now - t_touch >= HOLD_DURATION

hold_elapsed(t_now, t_touch) == t_now - t_touch > HOLD_DURATION

is_drag_down == pos_y > last_touch.pos_y

\* is_drag_up with the comparison of is_drag_down.
is_drag_up_inverted == pos_y > last_touch.pos_y

is_drag_up == pos_y < last_touch.pos_y

\* The increment without its brightness < MAX_BRIGHTNESS condition.
can_brighten_unchecked(b) == TRUE

can_brighten(b) == b < MAX_BRIGHTNESS

can_dim(b) == b > 0

\* stop_holding_key that clears holding_key without writing the key-up.
stop_holding_key_silent(key) ==
    [emitted |-> <<>>, holding_key |-> None]

\* stop_holding_key without the assignment that clears holding_key.
stop_holding_key_keeps_key(key) ==
    [emitted |-> IF key # None THEN keys_up(<<key>>) ELSE <<>>,
     holding_key |-> key]

\* NumberPad::stop_holding_key with holding_key = key: the events it writes
\* and the holding_key it leaves.
stop_holding_key(key) ==
    [emitted |-> IF key # None THEN keys_up(<<key>>) ELSE <<>>,
     holding_key |-> None]

\* The hold branch without its holding_key.is_none() condition.
no_key_held_unchecked(key) == TRUE

\* The last condition of the hold branch of a tick.
no_key_held(key) == key = None

\* The tap looked up where the contact started instead of where it lifted.
tap_key_at_last_touch(x, y, touch) == get_item(touch.pos_x, touch.pos_y)

\* The position Layout::get_item is asked about when a tap is lifted.
tap_key(x, y, touch) == get_item(x, y)

\* The events written when the hold of `key` starts.
hold_events(key) ==
    IF key = KEY_NUMLOCK THEN <<>> ELSE keys_down(<<key>>)

\* The contact-down handled without its early return.
contact_never_ignored(dragging) == FALSE

\* Whether a contact-down is ignored: the early return while dragging.
contact_ignored(dragging) == dragging

\* The tap on the Toggle Key without the ungrab of the deactivating branch.
toggle_grab_never_releases(active, g) == g

\* The Toggle Key tap that grabs the device as soon as it activates.
toggle_grab_on_enable(active, g) == IF active THEN FALSE ELSE TRUE

\* The grab state after a tap on the Toggle Key: released when the tap
\* deactivates, left alone when it activates.
toggle_grab(active, g) == IF active THEN FALSE ELSE g

\* The power command of a toggle that switches the light on whatever is_active.
toggle_command_always_on(active) == turn_on

\* The light command of a tap on the Toggle Key that finds is_active = active.
toggle_command(active) == IF ~active THEN turn_on ELSE turn_off

\* The tap that presses its key without looking at is_active.
tap_events_unchecked(active, key) == keys_press(<<key>>)

\* The events written by a tap on a key other than the Toggle Key.
tap_events(active, key) == IF active THEN keys_press(<<key>>) ELSE <<>>

\* Drag onset that never releases the grab.
drag_ungrabs_never(key) == FALSE

\* Drag onset that releases the grab whatever the touched key.
drag_ungrabs_always(key) == TRUE

\* Whether drag onset releases the grab.
drag_ungrabs(key) == key # KEY_NUMLOCK

\* ---------------------------------------------------------------- actions

\* EV_ABS(ABS_MT_POSITION_X) with value v.
PositionX(v) ==
    /\ ~aborted
    /\ pos_x' = v
    /\ event' = "ABS_MT_POSITION_X"
    /\ emitted' = <<>>
    /\ written' = <<>>
    /\ UNCHANGED <<pressed, pos_y, last_touch, is_active, is_dragging, is_lifted,
                   holding_key, brightness, grabbed, light, now, aborted>>

\* EV_ABS(ABS_MT_POSITION_Y) with value v.
PositionY(v) ==
    /\ ~aborted
    /\ pos_y' = v
    /\ event' = "ABS_MT_POSITION_Y"
    /\ emitted' = <<>>
    /\ written' = <<>>
    /\ UNCHANGED <<pressed, pos_x, last_touch, is_active, is_dragging, is_lifted,
                   holding_key, brightness, grabbed, light, now, aborted>>

\* EV_KEY(BTN_TOOL_FINGER) with a value other than 0: the finger is on the
\* touchpad.
FingerDown ==
    /\ ~aborted
    /\ event' = "BTN_TOOL_FINGER_1"
    /\ emitted' = <<>>
    /\ written' = <<>>
    /\ IF contact_ignored(is_dragging)
       THEN UNCHANGED <<last_touch, is_lifted, grabbed>>
       ELSE LET key == get_item(pos_x, pos_y)
            IN  /\ last_touch' = [pos_x |-> pos_x, pos_y |-> pos_y,
                                  time |-> now, key |-> key]
                /\ is_lifted' = FALSE
                /\ grabbed' = IF is_active /\ key # None THEN TRUE ELSE grabbed
    /\ UNCHANGED <<pos_x, pos_y, is_active, is_dragging, holding_key,
                   brightness, light, now, pressed, aborted>>

\* NumberPad::lift, the branch of a contact that was dragging.
lift_drag ==
    LET adjust == is_active /\ last_touch.key = KEY_NUMLOCK
        up     == adjust /\ is_drag_up /\ can_brighten(brightness)
        down   == adjust /\ ~is_drag_up /\ is_drag_down /\ can_dim(brightness)
        b      == IF up THEN (brightness + 1) % 256
                  ELSE IF down THEN brightness - 1
                  ELSE brightness
        res    == IF up \/ down THEN set_brightness(b) ELSE no_write
    IN  /\ is_dragging' = FALSE
        /\ brightness' = b
        /\ written' = res.bytes
        /\ light' = light_after(light, res.bytes)
        /\ aborted' = ~res.ok
        /\ grabbed' = IF adjust /\ res.ok THEN TRUE ELSE grabbed
        /\ emitted' = <<>>
        /\ UNCHANGED <<is_active, holding_key>>

\* NumberPad::lift, the branch of a contact that was holding a key.
lift_hold ==
    /\ emitted' = stop_holding_key(holding_key).emitted
    /\ holding_key' = stop_holding_key(holding_key).holding_key
    /\ written' = <<>>
    /\ UNCHANGED <<is_active, is_dragging, brightness, grabbed, light, aborted>>

\* NumberPad::lift, the branch of a tap: the key is looked up in the layout.
lift_tap ==
    LET key == tap_key(pos_x, pos_y, last_touch)
    IN  IF key = None
        THEN /\ emitted' = <<>>
             /\ written' = <<>>
             /\ UNCHANGED <<is_active, grabbed, light>>
        ELSE IF key = KEY_NUMLOCK
        THEN LET res == toggle_command(is_active)
             IN  /\ is_active' = ~is_active
                 /\ written' = res.bytes
                 /\ light' = light_after(light, res.bytes)
                 /\ grabbed' = toggle_grab(is_active, grabbed)
                 /\ emitted' = <<>>
        ELSE /\ emitted' = tap_events(is_active, key)
             /\ written' = <<>>
             /\ UNCHANGED <<is_active, grabbed, light>>

lift ==
    IF is_dragging THEN lift_drag
    ELSE IF holding_key # None THEN lift_hold
    ELSE /\ lift_tap
         /\ UNCHANGED <<is_dragging, holding_key, brightness, aborted>>

\* EV_KEY(BTN_TOOL_FINGER) with value 0: the finger is lifted.
FingerUp ==
    /\ ~aborted
    /\ event' = "BTN_TOOL_FINGER_0"
    /\ is_lifted' = TRUE
    /\ lift
    /\ pressed' = pressed_after(pressed, emitted')
    /\ UNCHANGED <<pos_x, pos_y, last_touch, now>>

\* EV_MSC(MSC_TIMESTAMP): the tick on which drag and hold are detected.
Timestamp ==
    /\ ~aborted
    /\ event' = "MSC_TIMESTAMP"
    /\ written' = <<>>
    /\ IF is_lifted
       THEN /\ emitted' = <<>>
            /\ UNCHANGED <<is_dragging, holding_key, grabbed>>
       ELSE IF ~is_dragging
               /\ drag_distance_reached(pos_x, pos_y,
                                        last_touch.pos_x, last_touch.pos_y)
       THEN /\ grabbed' = IF drag_ungrabs(last_touch.key) THEN FALSE ELSE grabbed
            /\ is_dragging' = TRUE
            /\ emitted' = stop_holding_key(holding_key).emitted
            /\ holding_key' = stop_holding_key(holding_key).holding_key
       ELSE IF is_active /\ ~is_dragging
               /\ hold_elapsed(now, last_touch.time)
               /\ no_key_held(holding_key)
               /\ last_touch.key # None
       THEN /\ holding_key' = last_touch.key
            /\ emitted' = hold_events(last_touch.key)
            /\ UNCHANGED <<is_dragging, grabbed>>
       ELSE /\ emitted' = <<>>
            /\ UNCHANGED <<is_dragging, holding_key, grabbed>>
    /\ pressed' = pressed_after(pressed, emitted')
    /\ UNCHANGED <<pos_x, pos_y, last_touch, is_active, is_lifted, brightness,
                   light, now, aborted>>

\* Time passes between two events.
Elapse(d) ==
    /\ ~aborted
    /\ now + d <= MaxNow
    /\ now' = now + d
    /\ event' = "elapse"
    /\ emitted' = <<>>
    /\ written' = <<>>
    /\ UNCHANGED <<touch_state, pressed>>

Next ==
    \/ \E v \in TouchXs : PositionX(v)
    \/ \E v \in TouchYs : PositionY(v)
    \/ FingerDown
    \/ FingerUp
    \/ Timestamp
    \/ \E d \in ClockSteps : Elapse(d)

Spec == Init /\ [][Next]_vars

\* The layout lookup on its own: two position events have set a point, and a
\* contact-down looks it up.
LayoutInit ==
    /\ pos_x \in LayoutXs
    /\ pos_y \in LayoutYs
    /\ last_touch = [pos_x |-> 0, pos_y |-> 0, time |-> 0, key |-> None]
    /\ is_active = FALSE
    /\ is_dragging = FALSE
    /\ is_lifted = TRUE
    /\ holding_key = None
    /\ brightness = MAX_BRIGHTNESS
    /\ grabbed = FALSE
    /\ light = light_after([on |-> FALSE, level |-> 0],
                           turn_off.bytes \o set_brightness(MAX_BRIGHTNESS).bytes)
    /\ now = 0
    /\ event = "ABS_MT_POSITION_Y"
    /\ emitted = <<>>
    /\ written = <<>>
    /\ pressed = {}
    /\ aborted = FALSE

LayoutNext == FingerDown

LayoutSpec == LayoutInit /\ [][LayoutNext]_vars

\* ----------------------------------------------------------------- claims

\* The EV_KEY events among the events written to the virtual keyboard.
RECURSIVE key_events_of(_)
key_events_of(events) ==
    IF events = <<>> THEN <<>>
    ELSE IF Head(events).code = SYN_REPORT THEN key_events_of(Tail(events))
    ELSE <<Head(events)>> \o key_events_of(Tail(events))

down_of(key) == [code |-> key, value |-> 1]

up_of(key) == [code |-> key, value |-> 0]

\* The squared distance between the current position and the contact start.
moved_squared ==
    (pos_x - last_touch.pos_x) * (pos_x - last_touch.pos_x)
    + (pos_y - last_touch.pos_y) * (pos_y - last_touch.pos_y)

elapsed == now - last_touch.time

\* C1: in every reachable state, is_dragging and holding_key.is_some() are
\* never both true.
C1_DragExcludesHold == ~(is_dragging /\ holding_key # None)

\* A tick has turned a contact that was holding KEY_7 into a drag.
C1_Witness ==
    /\ event = "MSC_TIMESTAMP"
    /\ is_dragging
    /\ key_events_of(emitted) = <<up_of("KEY_7")>>

C3_NoGrabAfterTap ==
    ( /\ event = "BTN_TOOL_FINGER_0"
      /\ is_active
      /\ last_touch.key \notin {None, KEY_NUMLOCK}
      /\ moved_squared < 900
      /\ elapsed < 250
      /\ key_events_of(emitted) = <<down_of(last_touch.key), up_of(last_touch.key)>> )
    => ~grabbed

\* C4: a contact-up with no drag detected and no hold fired resolves the key
\* at the lift position: a non-Toggle key while active yields exactly one
\* key-down followed by one key-up of that key and no other key event; no key
\* at the lift position yields no event and leaves is_active unchanged.
C4_TapResolvedAtLiftPosition ==
    [][ (event' = "BTN_TOOL_FINGER_0" /\ ~is_dragging /\ holding_key = None) =>
          LET key == get_item(pos_x, pos_y)
          IN  /\ (key \notin {None, KEY_NUMLOCK} /\ is_active) =>
                    /\ key_events_of(emitted') = <<down_of(key), up_of(key)>>
                    /\ emitted' = <<down_of(key), syn[1], up_of(key), syn[1]>>
              /\ key = None => (emitted' = <<>> /\ is_active' = is_active)
      ]_vars

\* A tap that started over the Toggle Key was lifted over KEY_7 and pressed it.
C4_Witness ==
    /\ event = "BTN_TOOL_FINGER_0"
    /\ last_touch.key = KEY_NUMLOCK
    /\ get_item(pos_x, pos_y) = "KEY_7"
    /\ key_events_of(emitted) = <<down_of("KEY_7"), up_of("KEY_7")>>

\* C5: a contact over a non-Toggle key held past the hold duration below the
\* drag distance gets exactly one key-down of that key however many ticks
\* follow, and its contact-up emits exactly one key-up of that key, no press.
C5_HoldEmitsOneDownThenOneUp ==
    [][ LET key == last_touch.key
            touching == /\ ~is_lifted /\ is_active /\ ~is_dragging
                        /\ key \notin {None, KEY_NUMLOCK}
                        /\ moved_squared < 900
        IN  /\ ( event' = "MSC_TIMESTAMP" /\ touching /\ holding_key = None
                 /\ elapsed > 250 ) =>
                   /\ key_events_of(emitted') = <<down_of(key)>>
                   /\ holding_key' = key
            /\ ( event' = "MSC_TIMESTAMP" /\ touching /\ holding_key = key ) =>
                   /\ emitted' = <<>>
                   /\ holding_key' = key
            /\ ( event' = "BTN_TOOL_FINGER_0" /\ touching /\ holding_key = key ) =>
                   /\ key_events_of(emitted') = <<up_of(key)>>
                   /\ holding_key' = None
      ]_vars

\* The contact-up of a held KEY_7 has released it.
C5_Witness ==
    /\ event = "BTN_TOOL_FINGER_0"
    /\ last_touch.key = "KEY_7"
    /\ elapsed > 250
    /\ moved_squared < 900
    /\ key_events_of(emitted) = <<up_of("KEY_7")>>

\* A tick finds a contact over a key, active, not dragging, below the drag
\* distance and with no key held.
tick_while_touching ==
    /\ event' = "MSC_TIMESTAMP"
    /\ ~is_lifted
    /\ is_active
    /\ ~is_dragging
    /\ holding_key = None
    /\ last_touch.key # None
    /\ moved_squared < 900

\* C6: on a tick while touching, active, not dragging and with no key held,
\* an elapsed time exactly equal to the hold duration already yields a hold.
C6_HoldAtExactDuration ==
    [][ (tick_while_touching /\ elapsed = 250) => holding_key' # None ]_vars

\* C6 as amended: on such a tick the hold starts exactly when the elapsed time
\* is strictly greater than the hold duration; at exactly 250 ms none starts.
C6_HoldOnlyPastDuration ==
    [][ tick_while_touching =>
          /\ elapsed > 250 => holding_key' = last_touch.key
          /\ elapsed <= 250 => holding_key' = None ]_vars

\* A tick has been handled exactly 250 ms into a contact over KEY_7 and no key
\* is held.
C6_Witness ==
    /\ event = "MSC_TIMESTAMP"
    /\ ~is_lifted
    /\ is_active
    /\ ~is_dragging
    /\ last_touch.key = "KEY_7"
    /\ moved_squared < 900
    /\ elapsed = 250
    /\ holding_key = None

\* C7: on a tick while a contact is down and not yet dragging, a distance of
\* exactly 30 units (dx^2 + dy^2 = 900) from the contact start makes the
\* contact a drag, and any smaller distance does not.
C7_DragBoundaryInclusive ==
    [][ (event' = "MSC_TIMESTAMP" /\ ~is_lifted /\ ~is_dragging) =>
          (is_dragging' <=> moved_squared >= 900) ]_vars

\* A tick has made a drag of a contact exactly 30 units from its start.
C7_Witness ==
    /\ event = "MSC_TIMESTAMP"
    /\ is_dragging
    /\ ~is_lifted
    /\ moved_squared = 900

\* A drag that started over the Toggle Key while active.
brightness_drag ==
    is_dragging /\ is_active /\ last_touch.key = KEY_NUMLOCK

saturating_inc(b) == IF b < 7 THEN b + 1 ELSE 7

saturating_dec(b) == IF b > 0 THEN b - 1 ELSE 0

C9_BrightnessInRange ==
    /\ brightness \in 0..7
    /\ light.level \in 0..7
    /\ \A i \in 1..Len(written) : written[i] <= 7 + 65
    /\ ~aborted

\* A Brightness-Drag lifted below its start at brightness 0 has left it at 0
\* and written nothing.
C9_Witness ==
    /\ event = "BTN_TOOL_FINGER_0"
    /\ is_active
    /\ last_touch.key = KEY_NUMLOCK
    /\ get_item(pos_x, pos_y) = KEY_NUMLOCK
    /\ pos_y > last_touch.pos_y
    /\ brightness = 0
    /\ written = <<>>
    /\ emitted = <<>>

\* C10: a contact that starts over the Toggle Key while active stays grabbed
\* from contact-down through drag onset and every later tick, and the
\* contact-up of that drag leaves the device grabbed, is_active true and
\* is_dragging false.
C10_BrightnessDragKeepsGrab ==
    [][ /\ ( ~is_lifted' /\ is_active' /\ last_touch'.key = KEY_NUMLOCK )
               => grabbed'
        /\ ( event' = "BTN_TOOL_FINGER_0" /\ brightness_drag ) =>
               ( grabbed' /\ is_active' /\ ~is_dragging' /\ is_lifted' )
      ]_vars

\* A Brightness-Drag has been lifted after lowering brightness: the device is
\* grabbed and the numpad still active.
C10_Witness ==
    /\ event = "BTN_TOOL_FINGER_0"
    /\ is_active
    /\ ~is_dragging
    /\ grabbed
    /\ last_touch.key = KEY_NUMLOCK
    /\ pos_y > last_touch.pos_y
    /\ written = <<6 + 65>>

\* C11: a plain tap lifted over the Toggle Key while is_active is false sets
\* is_active, sends turn_on to the light and does not grab the device; the
\* device goes from ungrabbed to grabbed only at a contact-down that lands on
\* a defined key.
C11_ActivationDoesNotGrab ==
    [][ /\ ( event' = "BTN_TOOL_FINGER_0" /\ ~is_dragging /\ holding_key = None
             /\ ~is_active /\ get_item(pos_x, pos_y) = KEY_NUMLOCK ) =>
               /\ is_active'
               /\ written' = <<1>>
               /\ light'.on
               /\ emitted' = <<>>
               /\ ~grabbed'
        /\ ( ~grabbed /\ grabbed' ) =>
               /\ event' = "BTN_TOOL_FINGER_1"
               /\ last_touch'.key # None
               /\ last_touch'.pos_x = pos_x /\ last_touch'.pos_y = pos_y
      ]_vars

\* The tap that activated the numpad has been lifted: the light is on and the
\* device is not grabbed.
C11_Witness ==
    /\ event = "BTN_TOOL_FINGER_0"
    /\ is_active
    /\ written = <<1>>
    /\ light.on
    /\ ~grabbed

\* C12: while is_active is false nothing is written to the virtual keyboard:
\* no tap, hold, drag or lift performed while the numpad is off emits a
\* key-down, a key-up or a press.
C12_InactiveEmitsNothing ==
    [][ (~is_active \/ ~is_active') => emitted' = <<>> ]_vars

\* A contact over KEY_7 has been lifted as a tap while the numpad is off and
\* nothing was emitted.
C12_Witness ==
    /\ event = "BTN_TOOL_FINGER_0"
    /\ ~is_active
    /\ last_touch.key = "KEY_7"
    /\ get_item(pos_x, pos_y) = "KEY_7"
    /\ moved_squared < 900
    /\ emitted = <<>>

\* The regions of the default layout: every key of every row with its row band.
layout_regions ==
    UNION { { [left_x |-> default_numpad_layout[r].items[i].left_x,
               right_x |-> default_numpad_layout[r].items[i].right_x,
               min_y |-> default_numpad_layout[r].min_y,
               max_y |-> default_numpad_layout[r].max_y,
               item |-> default_numpad_layout[r].items[i].item]
              : i \in 1..Len(default_numpad_layout[r].items) }
            : r \in 1..Len(default_numpad_layout) }

region_contains(g, x, y) ==
    g.left_x <= x /\ x <= g.right_x /\ g.min_y <= y /\ y <= g.max_y

regions_disjoint(g, h) ==
    \/ g.right_x < h.left_x \/ h.right_x < g.left_x
    \/ g.max_y < h.min_y \/ h.max_y < g.min_y

\* Points whose key is read off the layout by hand.
layout_examples ==
    { <<860, 200, "KEY_7">>, <<861, 200, None>>, <<909, 680, None>>,
      <<910, 680, "KEY_8">>, <<3080, 200, KEY_NUMLOCK>>, <<3750, 681, None>>,
      <<910, 780, "KEY_5">>, <<3750, 1260, "KEY_BACKSPACE">>,
      <<330, 1360, "KEY_1">>, <<2310, 1840, "KEY_MINUS">>,
      <<859, 1940, None>>, <<860, 1940, "KEY_0">>, <<1650, 2420, "KEY_DOT">>,
      <<3080, 2420, "KEY_ENTER">>, <<3080, 2421, None>>, <<329, 200, None>> }

\* C13: the layout lookup returns the key of the region that contains the
\* point and None for a point outside every region (the margins between keys
\* and between row bands included); the regions are pairwise disjoint, so the
\* first match is the only match.
C13_LookupMatchesRegions ==
    event = "BTN_TOOL_FINGER_1" =>
        LET x == last_touch.pos_x
            y == last_touch.pos_y
            hits == {g \in layout_regions : region_contains(g, x, y)}
        IN  /\ \A g, h \in layout_regions : g # h => regions_disjoint(g, h)
            /\ Cardinality(layout_regions) = 19
            /\ Cardinality(hits) <= 1
            /\ hits = {} => last_touch.key = None
            /\ \A g \in hits : last_touch.key = g.item
            /\ \A e \in layout_examples :
                   (x = e[1] /\ y = e[2]) => last_touch.key = e[3]

\* The corner of KEY_5, one margin right of KEY_4 and one margin below the
\* first row band, has been looked up.
C13_Witness ==
    /\ event = "BTN_TOOL_FINGER_1"
    /\ last_touch.pos_x = 910
    /\ last_touch.pos_y = 780
    /\ last_touch.key = "KEY_5"

\* C14: a contact-down received while is_dragging is true is ignored:
\* last_touch, is_lifted, is_dragging, holding_key, is_active, brightness and
\* the grab are unchanged and nothing is emitted or written to the light.
C14_ContactDownWhileDraggingIgnored ==
    [][ (event' = "BTN_TOOL_FINGER_1" /\ is_dragging) =>
          /\ UNCHANGED <<last_touch, is_lifted, is_dragging, holding_key,
                         is_active, brightness, grabbed, light, pressed>>
          /\ emitted' = <<>>
          /\ written' = <<>>
      ]_vars

\* A contact-down has arrived during a drag, later than the contact started
\* and over a key: the snapshot of the contact start is still the old one.
C14_Witness ==
    /\ event = "BTN_TOOL_FINGER_1"
    /\ is_dragging
    /\ ~is_lifted
    /\ now > last_touch.time
    /\ get_item(pos_x, pos_y) # last_touch.key
    /\ get_item(pos_x, pos_y) # None

\* The tick that turns a contact into a drag.
drag_onset ==
    event' = "MSC_TIMESTAMP" /\ ~is_dragging /\ is_dragging'

\* C15: the tick that reclassifies a contact as a drag never emits a key-up
\* or any other key event; the hold is cancelled by clearing holding_key
\* only.  Stated for the contacts over a key other than the Toggle Key.
C15_DragOnsetEmitsNothing ==
    [][ (drag_onset /\ last_touch.key # KEY_NUMLOCK) =>
          (emitted' = <<>> /\ holding_key' = None) ]_vars

\* C15 as amended: the tick that reclassifies a contact as a drag emits no
\* key event when no key is held; when a key is held it emits exactly one
\* key-up of the held key; in both cases it leaves holding_key none.
C15_DragOnsetReleasesHeldKey ==
    [][ drag_onset =>
          /\ holding_key' = None
          /\ holding_key = None => emitted' = <<>>
          /\ holding_key # None =>
                 /\ key_events_of(emitted') = <<up_of(holding_key)>>
                 /\ emitted' = <<up_of(holding_key), syn[1]>>
      ]_vars

\* A contact that held KEY_7 has moved 30 units and the tick that made it a
\* drag has released KEY_7 on the virtual keyboard.
C15_Witness ==
    /\ event = "MSC_TIMESTAMP"
    /\ is_dragging
    /\ holding_key = None
    /\ last_touch.key = "KEY_7"
    /\ elapsed > 250
    /\ emitted = <<up_of("KEY_7"), syn[1]>>
    /\ pressed = {}

\* C16: when the hold duration elapses on a tick while the candidate key is
\* the Toggle Key nothing happens: holding_key stays none and the Toggle Key
\* is never passed to the key simulator, on that tick or at the contact-up.
C16_ToggleKeyNeverHeldNorEmitted ==
    /\ holding_key # KEY_NUMLOCK
    /\ \A i \in 1..Len(emitted) : emitted[i].code # KEY_NUMLOCK

\* C17: whenever is_dragging is true and the key captured at contact start
\* is not the Toggle Key, the device is not grabbed: drag onset ungrabs it and
\* no event before the next contact-up grabs it again.
C17_PointerDragNotGrabbed ==
    (is_dragging /\ last_touch.key # KEY_NUMLOCK) => ~grabbed

\* The numpad is active, a contact that started on KEY_7 is dragging, and a
\* contact-down over a key has just been handled without grabbing the device.
C17_Witness ==
    /\ event = "BTN_TOOL_FINGER_1"
    /\ is_dragging
    /\ is_active
    /\ last_touch.key = "KEY_7"
    /\ get_item(pos_x, pos_y) # None
    /\ ~grabbed

\* C18: after every contact-up is_lifted is true, is_dragging is false and
\* holding_key is none; whenever the surface is lifted no emulated key is
\* down on the virtual keyboard, and a tick while lifted has no effect.
C18_LiftedIsQuiescent ==
    [][ /\ event' = "BTN_TOOL_FINGER_0" => is_lifted'
        /\ is_lifted' =>
               (~is_dragging' /\ holding_key' = None /\ pressed' = {})
        /\ (event' = "MSC_TIMESTAMP" /\ is_lifted) =>
               /\ UNCHANGED <<touch_state, pressed>>
               /\ emitted' = <<>>
               /\ written' = <<>>
      ]_vars

\* The contact-up of a contact that was holding KEY_7 has released the key:
\* the surface is lifted and nothing is down on the virtual keyboard.
C18_Witness ==
    /\ event = "BTN_TOOL_FINGER_0"
    /\ is_lifted
    /\ last_touch.key = "KEY_7"
    /\ emitted = <<up_of("KEY_7"), syn[1]>>
    /\ holding_key = None
    /\ pressed = {}

\* The key events of `events` keep the down/up alternation of every key,
\* given the set `keys` of the keys that are down before them.
RECURSIVE alternates(_, _)
alternates(keys, events) ==
    IF events = <<>> THEN TRUE
    ELSE IF Head(events).code = SYN_REPORT
    THEN alternates(keys, Tail(events))
    ELSE IF Head(events).value = KEY_DOWN
    THEN /\ Head(events).code \notin keys
         /\ alternates(keys \cup {Head(events).code}, Tail(events))
    ELSE /\ Head(events).code \in keys
         /\ alternates(keys \ {Head(events).code}, Tail(events))

\* C19: the key events emitted for each key alternate strictly down, up,
\* down, up starting with a down: no key-up is emitted for a key that is not
\* down and no key-down for a key that is already down.
C19_KeyEventsAlternate ==
    [][ alternates(pressed, emitted') ]_vars

\* C20: the light is on exactly when is_active is true, from the initial
\* state on, and the last power command written is turn_on exactly when
\* is_active is true; a brightness change never changes the power state and
\* a toggle never changes the brightness level.
C20_LightPowerFollowsActive ==
    [][ /\ light.on = is_active
        /\ light'.on = is_active'
        /\ is_active' # is_active =>
               /\ written' = IF is_active' THEN <<TURN_ON>> ELSE <<TURN_OFF>>
               /\ brightness' = brightness
               /\ light'.level = light.level
        /\ brightness' # brightness =>
               /\ written' = <<brightness' + BRIGHTNESS_OFFSET>>
               /\ light'.level = brightness'
               /\ light'.on = light.on
               /\ is_active' = is_active
        /\ is_active' = is_active =>
               \A i \in 1..Len(written') : written'[i] \notin {TURN_ON, TURN_OFF}
      ]_vars

\* A tap on the Toggle Key has just switched the numpad off after the
\* brightness had been lowered: the light is off and keeps the lowered level.
C20_Witness ==
    /\ event = "BTN_TOOL_FINGER_0"
    /\ ~is_active
    /\ written = <<TURN_OFF>>
    /\ ~light.on
    /\ brightness < MAX_BRIGHTNESS
    /\ light.level = brightness

\* C21: whenever is_active is false the device is not grabbed: no event
\* handled while is_active is false grabs the device, and the tap that
\* deactivates the numpad releases the grab taken at its contact-down.
C21_InactiveNotGrabbed ==
    [][ /\ ~is_active => (~grabbed /\ ~grabbed')
        /\ ~is_active' => ~grabbed'
        /\ (is_active /\ ~is_active') =>
               (event' = "BTN_TOOL_FINGER_0" /\ ~grabbed')
      ]_vars

\* A contact that came down over the Toggle Key has been lifted as the tap
\* that switches the numpad off: the device is not grabbed.
C21_Witness ==
    /\ event = "BTN_TOOL_FINGER_0"
    /\ ~is_active
    /\ ~grabbed
    /\ written = <<TURN_OFF>>
    /\ last_touch.key = KEY_NUMLOCK
    /\ last_touch.time = now
    /\ now > 0
    /\ brightness = MAX_BRIGHTNESS

====
